---- MODULE Spec2Model ----
(***************************************************************************)
(* A model of quieter.py: the OPL2Quieter register state machine and the   *)
(* pair loop of quieter_main that drives it over a DOSBox DRO file.        *)
(*                                                                         *)
(* The input file is a 26-byte header, a codemap and a stream of            *)
(* (register, value) byte pairs.  The header and codemap are fixed in Init; *)
(* the number of complete pairs in the stream (nPairs) and whether one      *)
(* stray byte follows them (tailByte) are fixed in Init as well, and the    *)
(* bytes of each pair are chosen when the pair is read (infile records the  *)
(* pairs read so far).                                                      *)
(***************************************************************************)
EXTENDS Integers, Sequences, FiniteSets, TLC

(***************************************************************************)
(* Bounds of the model.                                                     *)
(***************************************************************************)
\* The stream holds at most MaxPairs complete pairs.
MaxPairs == 3
\* A directly driven OPL2Quieter receives at most MaxCalls calls of write().
MaxCalls == 2
\* Runs that are compared with each other read at most MaxRunPairs pairs.
MaxRunPairs == 2

(***************************************************************************)
(* Bytes and bit operations, as Python computes them on integers.           *)
(***************************************************************************)
Max(a, b) == IF a >= b THEN a ELSE b

\* a & b for b >= 0 (a may be negative: Python integers are two's complement
\* of unbounded width, so the low bits of -1 are all ones).
RECURSIVE BitAnd(_, _)
BitAnd(a, b) ==
    IF b = 0 THEN 0
    ELSE ((a % 2) * (b % 2)) + 2 * BitAnd(a \div 2, b \div 2)

\* a | b for a, b >= 0.
RECURSIVE BitOr(_, _)
BitOr(a, b) ==
    IF a = 0 THEN b
    ELSE IF b = 0 THEN a
    ELSE Max(a % 2, b % 2) + 2 * BitOr(a \div 2, b \div 2)

\* a ^ b for a, b >= 0.
RECURSIVE BitXor(_, _)
BitXor(a, b) ==
    IF a = 0 THEN b
    ELSE IF b = 0 THEN a
    ELSE (((a % 2) + (b % 2)) % 2) + 2 * BitXor(a \div 2, b \div 2)

(***************************************************************************)
(* The register tables.                                                     *)
(***************************************************************************)
CARRIERS == {\h43, \h44, \h45, \h4B, \h4C, \h4D, \h53, \h54, \h55}

\* A variant of the table that also lists 0x46, 0x47, 0x4E and 0x4F.
LevelToAlgorithmEveryRegister ==
    [r \in \h40..\h55 |->
        \hC0 + (((r - \h40) \div 8) * 3)
             + (IF (r % 8) < 6 THEN (r % 8) \div 2 ELSE 2)]

LEVEL_TO_ALGORITHM ==
    (\h40 :> \hC0) @@ (\h41 :> \hC0) @@ (\h42 :> \hC1) @@ (\h43 :> \hC1) @@
    (\h44 :> \hC2) @@ (\h45 :> \hC2) @@ (\h48 :> \hC3) @@ (\h49 :> \hC3) @@
    (\h4A :> \hC4) @@ (\h4B :> \hC4) @@ (\h4C :> \hC5) @@ (\h4D :> \hC5) @@
    (\h50 :> \hC6) @@ (\h51 :> \hC6) @@ (\h52 :> \hC7) @@ (\h53 :> \hC7) @@
    (\h54 :> \hC8) @@ (\h55 :> \hC8)

\* The header ids print_info looks up (HARDWARE_TYPES, FORMAT_TYPES,
\* COMPRESSION_TYPES); an id outside its table raises KeyError.
HARDWARE_TYPES == {0, 1, 2}
FORMAT_TYPES == {0, 1}
COMPRESSION_TYPES == {0}

(***************************************************************************)
(* OPL2Quieter.                                                             *)
(***************************************************************************)
\* self.registers after __init__.
InitRegisters == [i \in 0..255 |-> 0]

\* 0x40 <= register <= 0x55
IsLevelRegister(register) == \h40 <= register /\ register <= \h55

\* LEVEL_TO_ALGORITHM[register] raises KeyError for a level register that
\* the table does not list.
WriteRaises(register) ==
    IsLevelRegister(register) /\ register \notin DOMAIN LEVEL_TO_ALGORITHM

\* A variant that reads the low bit of the level register's own cell.
AlgorithmOwnRegister(regs, register) == BitAnd(regs[register], \h01)

\* The algorithm bit: LSB of the algorithm/feedback register of `register`.
Algorithm(regs, register) == BitAnd(regs[LEVEL_TO_ALGORITHM[register]], \h01)

\* A variant that looks at the carrier table only, whatever the algorithm bit.
ModifyLevelCarrierOnly(regs, register) == register \in CARRIERS

\* modify_level, for a level register.
ModifyLevel(regs, register) ==
    IF Algorithm(regs, register) = 0
    THEN register \in CARRIERS
    ELSE TRUE

\* A variant that also passes the values of registers outside 0x40..0x55
\* through the quiet function.
WriteValueEveryRegister(qf, regs, register, value) ==
    IF IsLevelRegister(register) => ModifyLevel(regs, register)
    THEN LET ksl == BitAnd(value, \hC0)
             lvl == qf[BitAnd(value, \h3F)]
         IN  BitOr(ksl, BitAnd(lvl, \h3F))
    ELSE value

\* A variant that masks the new level with 0xFF instead of 0x3F.
WriteValueWideMask(qf, regs, register, value) ==
    IF IsLevelRegister(register) /\ ModifyLevel(regs, register)
    THEN LET ksl == BitAnd(value, \hC0)
             lvl == qf[BitAnd(value, \h3F)]
         IN  BitOr(ksl, BitAnd(lvl, \hFF))
    ELSE value

\* The value that write() stores and returns.
WriteValue(qf, regs, register, value) ==
    IF IsLevelRegister(register) /\ ModifyLevel(regs, register)
    THEN LET ksl == BitAnd(value, \hC0)
             lvl == qf[BitAnd(value, \h3F)]
         IN  BitOr(ksl, BitAnd(lvl, \h3F))
    ELSE value

\* A variant that stores the value as it was passed in.
WriteRegistersInputValue(qf, regs, register, value) ==
    [regs EXCEPT ![register] = value]

\* self.registers after write(register, value).
WriteRegisters(qf, regs, register, value) ==
    [regs EXCEPT ![register] = WriteValue(qf, regs, register, value)]

\* A variant that subtracts the level from the configured amount.
MainQuietFunctionSwapped(configured) ==
    [lvl \in 0..63 |-> Max(configured - lvl, 0)]

\* A variant that subtracts the configured amount without clamping at 0.
MainQuietFunctionNoClamp(configured) ==
    [lvl \in 0..63 |-> lvl - configured]

\* The quiet function quieter_main builds: lambda level: max(level - level, 0).
\* The lambda's parameter is named `level` too and hides the configured
\* amount, so the configured amount does not enter the result.
MainQuietFunction(configured) ==
    [level \in 0..63 |-> Max(level - level, 0)]

(***************************************************************************)
(* The inputs of the model.                                                 *)
(***************************************************************************)
\* Codemaps.  The short one maps index 0 to the carrier 0x43, 1 to the
\* modulator 0x42 of the same channel, 2 to that channel's algorithm
\* register 0xC1 and 3 to 0x46, a level register without an algorithm
\* mapping.  The long one extends it with 0x20 up to index 0x45.
ShortCodemap == <<\h43, \h42, \hC1, \h46>>
LongCodemap == [i \in 1..70 |-> IF i <= 4 THEN ShortCodemap[i] ELSE \h20]
Codemaps == {ShortCodemap, LongCodemap}

\* (short, long) delay codes.
DelayCodes == {<<\h00, \h45>>, <<\h7A, \h7B>>}

\* Register bytes and value bytes of the stream.
RawRegs == {\h00, \h01, \h02, \h03, \h81, \h45}
Vals == {\h25, \hE4}

\* The --level argument.
Levels == {0, 5, 63}

\* The number of header bytes the file holds: a whole header or a cut one.
HeaderLens == {12, 26}

\* The fields of the unpacked header that the program uses.
Headers ==
    [cSignature : {"DBRAWOPL", "DBRAWOPX"},
     iLengthPairs : 0..(MaxPairs + 1),
     iHardwareType : {0, 3},
     iFormat : {0},
     iCompression : {0},
     delays : DelayCodes,
     codemap : Codemaps]

(***************************************************************************)
(* The state of quieter_main.                                               *)
(***************************************************************************)
VARIABLES
    headerLen,       \* bytes infile.read(26) returns
    data,            \* the unpacked header (and the codemap bytes that follow)
    level,           \* the level argument
    nPairs,          \* complete pairs in the stream after the codemap
    tailByte,        \* TRUE when one more byte follows the last pair
    infile,          \* the pairs read so far
    outHeader,       \* TRUE when the header chunk is written to outfile
    outCodemap,      \* the codemap bytes written to outfile
    outPairs,        \* the pairs written to outfile
    quiet_function,  \* OPL2Quieter.quiet_function (<<>> before construction)
    registers,       \* OPL2Quieter.registers (<<>> before construction)
    pairsRead,
    orig_reg, reg, val,
    pc,              \* "header", "codemap", "loop", "body", "close", "done"
    result,          \* the return value or the exception raised
    runs             \* several runs of the pair loop side by side (<<>> when
                     \* a single run is modelled by the variables above)

vars == <<headerLen, data, level, nPairs, tailByte, infile, outHeader,
          outCodemap, outPairs, quiet_function, registers, pairsRead,
          orig_reg, reg, val, pc, result, runs>>

short_delay == data.delays[1]
long_delay == data.delays[2]
codemap == data.codemap

BadSignature == "(1, 'input file is not a valid DOSBox DRO file.')"
Success == "(0,)"

Init ==
    /\ headerLen \in HeaderLens
    /\ data \in Headers
    /\ level \in Levels
    /\ nPairs \in 0..MaxPairs
    /\ tailByte \in BOOLEAN
    /\ infile = <<>>
    /\ outHeader = FALSE
    /\ outCodemap = <<>>
    /\ outPairs = <<>>
    /\ quiet_function = <<>>
    /\ registers = <<>>
    /\ pairsRead = 0
    /\ orig_reg = 0 /\ reg = 0 /\ val = 0
    /\ pc = "header"
    /\ result = "running"
    /\ runs = <<>>

\* An exception leaves quieter_main; nothing after it runs.
Raise(exc) == pc' = "done" /\ result' = exc

\* return (code, reason)
Return(r) == pc' = "done" /\ result' = r

\* Read and unpack the header, copy it out, check the signature.
ReadHeader ==
    /\ pc = "header"
    /\ IF headerLen < 26
       THEN /\ Raise("struct.error")
            /\ UNCHANGED outHeader
       ELSE /\ outHeader' = TRUE
            /\ IF data.cSignature # "DBRAWOPL"
               THEN Return(BadSignature)
               ELSE pc' = "codemap" /\ UNCHANGED result
    /\ UNCHANGED runs
    /\ UNCHANGED <<headerLen, data, level, nPairs, tailByte, infile,
                   outCodemap, outPairs, quiet_function, registers,
                   pairsRead, orig_reg, reg, val>>

\* print_info formats the header ids through their tables.
PrintInfoRaises ==
    \/ data.iHardwareType \notin HARDWARE_TYPES
    \/ data.iFormat \notin FORMAT_TYPES
    \/ data.iCompression \notin COMPRESSION_TYPES

\* Copy the codemap, print the file information, build the quieter.
CopyCodemap ==
    /\ pc = "codemap"
    /\ outCodemap' = codemap
    /\ IF PrintInfoRaises
       THEN /\ Raise("KeyError")
            /\ UNCHANGED <<quiet_function, registers>>
       ELSE /\ quiet_function' = MainQuietFunction(level)
            /\ registers' = InitRegisters
            /\ pc' = "loop"
            /\ UNCHANGED result
    /\ pairsRead' = 0
    /\ UNCHANGED runs
    /\ UNCHANGED <<headerLen, data, level, nPairs, tailByte, infile,
                   outHeader, outPairs, orig_reg, reg, val>>

\* A variant of the loop test that runs one pair too far.
LoopContinuesInclusive(read, total) == read <= total

\* while pairsRead < pairsTotal
LoopContinues(read, total) == read < total

\* The loop test and the read of the next pair.
LoopRead ==
    /\ pc = "loop"
    /\ IF ~LoopContinues(pairsRead, data.iLengthPairs)
       THEN pc' = "close" /\ UNCHANGED <<infile, reg, val, result>>
       ELSE IF Len(infile) < nPairs
       THEN \E r \in RawRegs, v \in Vals :
                /\ infile' = Append(infile, <<r, v>>)
                /\ reg' = r /\ val' = v
                /\ pc' = "body"
                /\ UNCHANGED result
       ELSE IF tailByte
       THEN Raise("struct.error") /\ UNCHANGED <<infile, reg, val>>
       ELSE pc' = "close" /\ UNCHANGED <<infile, reg, val, result>>
    /\ UNCHANGED runs
    /\ UNCHANGED <<headerLen, data, level, nPairs, tailByte, outHeader,
                   outCodemap, outPairs, quiet_function, registers,
                   pairsRead, orig_reg>>

\* A variant that leaves the bank bit in the register.
MaskedKeepBank(r) == r

\* A variant that wraps the index into the codemap.
MaskedWrapped(r) ==
    (IF BitAnd(r, \h80) # 0 THEN BitXor(r, \h80) ELSE r) % Len(codemap)

\* reg with the bank bit removed.
Masked(r) == IF BitAnd(r, \h80) # 0 THEN BitXor(r, \h80) ELSE r

\* A variant that only knows the short delay code.
IsDelayShortOnly(r) == Masked(r) = short_delay

\* reg == short_delay, or reg == long_delay
IsDelay(r) == Masked(r) = short_delay \/ Masked(r) = long_delay

\* A variant that writes the translated register.
PackPairTranslated(orig, real, value) == <<real, value>>

\* pack('BB', orig_reg, val): the pair written for a pair read as orig,
\* translated to real and adjusted to value.
PackPair(orig, real, value) == <<orig, value>>

\* The body of the loop for the pair just read: bank bit, delay test,
\* codemap lookup, quieter.write, and the write of the pair.
LoopBody ==
    /\ pc = "body"
    /\ orig_reg' = reg
    /\ IF IsDelay(reg)
       THEN /\ reg' = Masked(reg)
            /\ outPairs' = Append(outPairs, PackPair(reg, Masked(reg), val))
            /\ pairsRead' = pairsRead + 1
            /\ pc' = "loop"
            /\ UNCHANGED <<val, registers, result>>
       ELSE IF ~(Masked(reg) < Len(codemap))
       THEN /\ Raise("IndexError")
            /\ reg' = Masked(reg)
            /\ UNCHANGED <<val, registers, outPairs, pairsRead>>
       ELSE LET real == codemap[Masked(reg) + 1]
            IN  /\ reg' = real
                /\ IF WriteRaises(real)
                   THEN /\ Raise("KeyError")
                        /\ UNCHANGED <<val, registers, outPairs, pairsRead>>
                   ELSE /\ val' = WriteValue(quiet_function, registers,
                                             real, val)
                        /\ registers' = WriteRegisters(quiet_function,
                                                       registers, real, val)
                        /\ outPairs' = Append(outPairs,
                                               PackPair(reg, real, val'))
                        /\ pairsRead' = pairsRead + 1
                        /\ pc' = "loop"
                        /\ UNCHANGED result
    /\ UNCHANGED runs
    /\ UNCHANGED <<headerLen, data, level, nPairs, tailByte, infile,
                   outHeader, outCodemap, quiet_function>>

\* Close the files and return.
Finish ==
    /\ pc = "close"
    /\ Return(Success)
    /\ UNCHANGED runs
    /\ UNCHANGED <<headerLen, data, level, nPairs, tailByte, infile,
                   outHeader, outCodemap, outPairs, quiet_function,
                   registers, pairsRead, orig_reg, reg, val>>

Next == ReadHeader \/ CopyCodemap \/ LoopRead \/ LoopBody \/ Finish

Spec == Init /\ [][Next]_vars

(***************************************************************************)
(* OPL2Quieter driven directly: an instance built with any quiet function,  *)
(* and write() called with any register and value.  infile records the     *)
(* (register, value) arguments of the calls and outPairs the pairs returned.*)
(***************************************************************************)
\* Quiet functions, some with results outside 0..63.
QuietFunctions ==
    { MainQuietFunction(5),
      [l \in 0..63 |-> l - 5],
      [l \in 0..63 |-> l + 60],
      [l \in 0..63 |-> 255],
      [l \in 0..63 |-> 0 - 1] }

\* The registers and values write() is called with.
CallRegisters == {\h43, \h42, \hC1, \h46, \h20}
CallValues == {\h01, \h25, \hE4, \hFF}

InitQuieter ==
    /\ headerLen = 26
    /\ data \in {h \in Headers : /\ h.cSignature = "DBRAWOPL"
                                 /\ h.iLengthPairs = 0
                                 /\ h.iHardwareType = 0
                                 /\ h.codemap = ShortCodemap
                                 /\ h.delays = <<\h7A, \h7B>>}
    /\ level = 0
    /\ nPairs = 0
    /\ tailByte = FALSE
    /\ infile = <<>>
    /\ outHeader = FALSE
    /\ outCodemap = <<>>
    /\ outPairs = <<>>
    /\ quiet_function \in QuietFunctions
    /\ registers = InitRegisters
    /\ pairsRead = 0
    /\ orig_reg = 0 /\ reg = 0 /\ val = 0
    /\ pc = "quieter"
    /\ result = "running"
    /\ runs = <<>>

\* One call of write(register, value).
WriteCall ==
    /\ pc = "quieter"
    /\ Len(infile) < MaxCalls
    /\ \E register \in CallRegisters, value \in CallValues :
           /\ infile' = Append(infile, <<register, value>>)
           /\ IF WriteRaises(register)
              THEN /\ Raise("KeyError")
                   /\ UNCHANGED <<registers, outPairs, reg, val>>
              ELSE /\ registers' = WriteRegisters(quiet_function, registers,
                                                  register, value)
                   /\ reg' = register
                   /\ val' = WriteValue(quiet_function, registers,
                                        register, value)
                   /\ outPairs' = Append(outPairs, <<reg', val'>>)
                   /\ UNCHANGED <<pc, result>>
    /\ UNCHANGED runs
    /\ UNCHANGED <<headerLen, data, level, nPairs, tailByte, outHeader,
                   outCodemap, quiet_function, pairsRead, orig_reg>>

NextQuieter == WriteCall

SpecQuieter == InitQuieter /\ [][NextQuieter]_vars

(***************************************************************************)
(* Several runs of the pair loop of quieter_main side by side, on the same  *)
(* header and codemap.  A run is a record of the level it was started with, *)
(* its quieter, the pairs it has read and written, the levels it has passed *)
(* to the quiet function, and its result.                                   *)
(***************************************************************************)
\* A run at the point where quieter_main enters the loop.
NewRun(lv) ==
    [level |-> lv,
     quiet_function |-> MainQuietFunction(lv),
     registers |-> InitRegisters,
     infile |-> <<>>,
     outPairs |-> <<>>,
     quieted |-> <<>>,
     result |-> "running"]

\* One turn of the loop of a run whose next pair in the stream is (r, v).
RunPair(run, r, v) ==
    IF run.result # "running"
          \/ ~LoopContinues(Len(run.outPairs), data.iLengthPairs)
    THEN run
    ELSE LET read == [run EXCEPT !.infile = Append(@, <<r, v>>)]
         IN  IF IsDelay(r)
             THEN [read EXCEPT
                     !.outPairs = Append(@, PackPair(r, Masked(r), v))]
             ELSE IF ~(Masked(r) < Len(codemap))
             THEN [read EXCEPT !.result = "IndexError"]
             ELSE LET real == codemap[Masked(r) + 1]
                  IN  IF WriteRaises(real)
                      THEN [read EXCEPT !.result = "KeyError"]
                      ELSE [read EXCEPT
                              !.registers =
                                  WriteRegisters(run.quiet_function,
                                                 run.registers, real, v),
                              !.outPairs =
                                  Append(@, PackPair(r, real,
                                      WriteValue(run.quiet_function,
                                                 run.registers, real, v))),
                              !.quieted =
                                  IF IsLevelRegister(real)
                                       /\ ModifyLevel(run.registers, real)
                                  THEN Append(@, BitAnd(v, \h3F))
                                  ELSE @]

\* The header of the runs: a valid one whose pair count covers the stream.
RunHeaders ==
    {h \in Headers : /\ h.cSignature = "DBRAWOPL"
                     /\ h.iLengthPairs = MaxPairs + 1
                     /\ h.iHardwareType = 0}

\* What the variables of the single run hold while runs are modelled.
InitRunsFrame ==
    /\ headerLen = 26
    /\ data \in RunHeaders
    /\ level = 0
    /\ nPairs = 0
    /\ tailByte = FALSE
    /\ infile = <<>>
    /\ outHeader = FALSE
    /\ outCodemap = <<>>
    /\ outPairs = <<>>
    /\ quiet_function = <<>>
    /\ registers = <<>>
    /\ pairsRead = 0
    /\ orig_reg = 0 /\ reg = 0 /\ val = 0
    /\ result = "running"

RunsFrame ==
    UNCHANGED <<headerLen, data, level, nPairs, tailByte, infile, outHeader,
                outCodemap, outPairs, quiet_function, registers, pairsRead,
                orig_reg, reg, val, pc, result>>

\* Two passes against one: run `first` reads the stream with level a, run
\* `second` reads the output of `first` with level b, and run `single` reads
\* the stream with level a + b.
PassLevels == {0, 5}
PassVals == {\h25, \hE4, \h03}

InitPasses ==
    /\ InitRunsFrame
    /\ pc = "passes"
    /\ \E a \in PassLevels, b \in PassLevels :
           runs = [first |-> NewRun(a),
                   second |-> NewRun(b),
                   single |-> NewRun(a + b)]

\* The next pair of the stream goes through `first` and `single`, and the
\* pair `first` writes for it, if any, goes through `second`.
PassStep ==
    /\ pc = "passes"
    /\ Len(runs.first.infile) < MaxRunPairs
    /\ runs.first.infile = runs.single.infile
    /\ \E r \in RawRegs, v \in PassVals :
           LET f == RunPair(runs.first, r, v)
               written == f.outPairs[Len(f.outPairs)]
           IN  runs' = [first |-> f,
                        second |->
                            IF Len(f.outPairs) > Len(runs.first.outPairs)
                            THEN RunPair(runs.second, written[1], written[2])
                            ELSE runs.second,
                        single |-> RunPair(runs.single, r, v)]
    /\ RunsFrame

NextPasses == PassStep

SpecPasses == InitPasses /\ [][NextPasses]_vars

\* Two runs with the same level on streams that differ only in the bank bit
\* (0x80) of some register bytes.
InitBanks ==
    /\ InitRunsFrame
    /\ pc = "banks"
    /\ \E lv \in Levels :
           runs = [plain |-> NewRun(lv), flipped |-> NewRun(lv)]

BankStep ==
    /\ pc = "banks"
    /\ Len(runs.plain.infile) < MaxRunPairs
    /\ Len(runs.flipped.infile) = Len(runs.plain.infile)
    /\ \E r \in RawRegs, v \in Vals, flip \in BOOLEAN :
           runs' = [plain |-> RunPair(runs.plain, r, v),
                    flipped |->
                        RunPair(runs.flipped,
                                IF flip THEN BitXor(r, \h80) ELSE r, v)]
    /\ RunsFrame

NextBanks == BankStep

SpecBanks == InitBanks /\ [][NextBanks]_vars

(***************************************************************************)
(* Properties.                                                              *)
(***************************************************************************)
\* The pair being processed by the loop body, and what the body does to it.
InBody == pc = "body"
RawReg == infile[Len(infile)][1]
RawVal == infile[Len(infile)][2]
RawIsDelay == (RawReg % 128) \in {short_delay, long_delay}
RawInCodemap == (RawReg % 128) < Len(codemap)
RealReg == codemap[(RawReg % 128) + 1]
\* The body translates the pair to a level register that has an algorithm
\* register.
LevelWrite ==
    /\ InBody /\ ~RawIsDelay /\ RawInCodemap
    /\ RealReg \in \h40..\h55
    /\ RealReg \in DOMAIN LEVEL_TO_ALGORITHM
\* The low bit of the bank cell of the algorithm register of RealReg.
AlgoBit == registers[LEVEL_TO_ALGORITHM[RealReg]] % 2
NineCarriers == {\h43, \h44, \h45, \h4B, \h4C, \h4D, \h53, \h54, \h55}
\* The level write is one the program modifies.
ModifiedWrite == LevelWrite /\ (AlgoBit = 1 \/ RealReg \in NineCarriers)
\* The pair the step emits.
Emitted == outPairs'[Len(outPairs')]
Emits == Len(outPairs') = Len(outPairs) + 1

\* C1: every modified level-register write is emitted with its low 6 bits
\* equal to max(level - configured reduction, 0), level being the low 6 bits
\* of the input value.
C1_LevelReducedByConfigured ==
    [][ModifiedWrite =>
          /\ Emits
          /\ Emitted[2] % 64 = Max((RawVal % 64) - level, 0)]_vars

\* C2: with the configured reduction 0, every emitted pair is byte-identical
\* to the input pair at the same position.
C2_ZeroReductionIdentity ==
    level = 0 =>
        \A i \in 1..Len(outPairs) : outPairs[i] = infile[i]

\* C3: a level-register write with an algorithm mapping has its level
\* modified (its low 6 bits passed through the quiet function, its top two
\* bits kept) exactly when the algorithm bit is 1 or the register is one of
\* the nine carriers; otherwise (a modulator in FM mode) the value is
\* emitted and stored exactly as it was input.
C3_ModifiedIffAdditiveOrCarrier ==
    [][LevelWrite =>
          /\ Emits
          /\ IF AlgoBit = 1 \/ RealReg \in NineCarriers
             THEN Emitted[2] = ((RawVal \div 64) * 64)
                                 + (quiet_function[RawVal % 64] % 64)
             ELSE Emitted[2] = RawVal
          /\ registers'[RealReg] = Emitted[2]]_vars

\* C3 witness: a modulator written in FM mode came out unchanged, then the
\* algorithm register was set to additive, and the same modulator written
\* again came out with its level modified.
C3_Witness ==
    /\ Len(outPairs) = 3
    /\ data.delays = <<\h7A, \h7B>>
    /\ infile = <<(<<\h01, \h25>>), (<<\h02, \h25>>), (<<\h01, \hE4>>)>>
    /\ outPairs[1][2] = \h25
    /\ outPairs[3][2] = \hC0
    /\ registers[\h42] = \hC0

\* C4 as stated: a pair whose masked register (before the codemap) is not in
\* 0x40..0x55 and is not a delay code is emitted with its value unchanged.
C4_MaskedNonLevelUnchanged ==
    \A i \in 1..Len(outPairs) :
        LET m == infile[i][1] % 128
        IN  (m \notin \h40..\h55 /\ m \notin {short_delay, long_delay})
                => outPairs[i][2] = infile[i][2]

\* C4 amended: a pair that is not a delay and whose register after the
\* codemap translation is not in 0x40..0x55 is emitted with its value
\* unchanged, for every codemap and reduction amount.
C4_RealNonLevelUnchanged ==
    \A i \in 1..Len(outPairs) :
        LET m == infile[i][1] % 128
        IN  (m \notin {short_delay, long_delay}
               /\ codemap[m + 1] \notin \h40..\h55)
                => outPairs[i][2] = infile[i][2]

\* C4 witness: a pair whose masked register is in 0x40..0x55 but whose
\* register after the codemap is not a level register has been emitted, with
\* a value whose level bits the quiet function would change.
C4_Witness ==
    \E i \in 1..Len(outPairs) :
        LET m == infile[i][1] % 128
        IN  /\ m \in \h40..\h55
            /\ m \notin {short_delay, long_delay}
            /\ codemap[m + 1] \notin \h40..\h55
            /\ infile[i][2] % 64 # 0
            /\ level > 0

\* C5: a pair whose masked register equals the short or the long delay code
\* is emitted byte-identical, is not translated through the codemap, and
\* leaves the register bank unchanged.
C5_DelayPassthrough ==
    [][(InBody /\ RawIsDelay) =>
          /\ outPairs' = Append(outPairs, <<RawReg, RawVal>>)
          /\ registers' = registers
          /\ result' = "running"]_vars

\* C5 witness: delay pairs were emitted, one under the short code at an index
\* whose codemap entry is the carrier 0x43 and one under the long code with
\* the bank bit clear, and the bank is still all zero.
C5_Witness ==
    /\ Len(outPairs) = 2
    /\ data.delays = <<\h00, \h45>>
    /\ infile = <<(<<\h00, \h25>>), (<<\h45, \hE4>>)>>
    /\ codemap[1] = \h43
    /\ outPairs = infile
    /\ registers = InitRegisters

\* C6: every pair write() returns has the top two bits of the input value
\* and is a byte, whatever the quiet function returns, results outside 0..63
\* included.
C6_KslBitsKept ==
    \A i \in 1..Len(outPairs) :
        /\ outPairs[i][2] \in 0..255
        /\ outPairs[i][2] \div 64 = infile[i][2] \div 64

\* C6 witness: write() returned from a carrier write whose quiet function
\* result is outside 0..63, for a value with top bits set.
C6_Witness ==
    \E i \in 1..Len(outPairs) :
        /\ infile[i][1] = \h43
        /\ infile[i][2] \div 64 # 0
        /\ quiet_function[infile[i][2] % 64] \notin 0..63

\* Byte lengths of the input file and of the output file.
InputLength ==
    headerLen + Len(codemap) + (2 * nPairs) + (IF tailByte THEN 1 ELSE 0)
OutputLength ==
    (IF outHeader THEN 26 ELSE 0) + Len(outCodemap) + (2 * Len(outPairs))

\* C7 as stated: a pass that ends without a fatal error has written as many
\* pairs as the input stream holds, whatever the header's pair count is.
C7_WritesEveryPairPresent ==
    result = Success => Len(outPairs) = nPairs

\* C7 amended: a pass that ends without a fatal error has written as many
\* pairs as the smaller of the header's pair count and the number of pairs
\* in the stream; the output is as long as the input when the pair count is
\* not smaller than the number of pairs and no odd byte follows them.
C7_WritesMinOfCountAndPresent ==
    result = Success =>
        /\ Len(outPairs) = (IF data.iLengthPairs < nPairs
                            THEN data.iLengthPairs ELSE nPairs)
        /\ (data.iLengthPairs >= nPairs /\ ~tailByte)
               => OutputLength = InputLength

\* C7 witness: a pass ended without error on a stream that holds more pairs
\* than the header counts, having written pairs.
C7_Witness ==
    /\ result = Success
    /\ 0 < data.iLengthPairs
    /\ data.iLengthPairs < nPairs
    /\ Len(outPairs) = data.iLengthPairs

\* C8: the i-th emitted pair carries the raw register byte of the i-th
\* input pair, and every pair read so far has been emitted when the next
\* pair is read.
C8_OrderAndRawRegister ==
    /\ [](/\ Len(outPairs) <= Len(infile)
          /\ \A i \in 1..Len(outPairs) : outPairs[i][1] = infile[i][1])
    /\ [][Len(infile') > Len(infile) => Len(outPairs) = Len(infile)]_vars

\* C8 witness: the second pair has been read after the first, a bank-1 write
\* translated to register 0x42, was emitted under its raw byte 0x81.
C8_Witness ==
    /\ pc = "body"
    /\ Len(infile) = 2
    /\ data.delays = <<\h7A, \h7B>>
    /\ infile[1][1] = \h81
    /\ codemap[(\h81 % 128) + 1] = \h42
    /\ outPairs = <<(<<\h81, infile[1][2]>>)>>

\* C9: a read that finds the stream ended before the header's pair count is
\* reached, a single trailing byte included, ends the loop without an error,
\* the output holding exactly the pairs that were read.
C9_ShortReadEndsGracefully ==
    [][(pc = "loop" /\ pairsRead < data.iLengthPairs /\ Len(infile) = nPairs)
          => /\ pc' = "close"
             /\ result' = "running"
             /\ Len(outPairs') = Len(infile)]_vars

\* C10: an input whose first 8 bytes are not DBRAWOPL ends with the
\* bad-signature result, with no codemap byte and no pair written, no pair
\* read and no register state machine run.
C10_BadSignatureRejected ==
    (pc = "done" /\ data.cSignature # "DBRAWOPL") =>
        /\ result = BadSignature
        /\ outCodemap = <<>>
        /\ outPairs = <<>>
        /\ infile = <<>>
        /\ registers = <<>>

\* C12: with a configured reduction of 63 or more, every modified
\* level-register value is emitted with its low 6 bits equal to 0.
C12_ClampedAtZero ==
    [][(level >= 63 /\ ModifiedWrite) =>
          /\ Emits
          /\ Emitted[2] % 64 = 0
          /\ Emitted[2] \div 64 = RawVal \div 64]_vars

\* C12 witness: with reduction 63 the carrier value 0xE4 (level 0x24) was
\* emitted as 0xC0.
C12_Witness ==
    /\ level >= 63
    /\ data.delays = <<\h7A, \h7B>>
    /\ Len(outPairs) >= 1
    /\ infile[1] = <<\h00, \hE4>>
    /\ outPairs[1] = <<\h00, \hC0>>

\* The real register of the i-th pair read, for a pair that is not a delay
\* and whose index is inside the codemap.
IsWriteAt(i) ==
    /\ (infile[i][1] % 128) \notin {short_delay, long_delay}
    /\ (infile[i][1] % 128) < Len(codemap)
RealRegAt(i) == codemap[(infile[i][1] % 128) + 1]

\* The positions before the pair being processed at which its algorithm
\* register was written.
AlgoWritesBefore ==
    {j \in 1..(Len(infile) - 1) :
        IsWriteAt(j) /\ RealRegAt(j) = LEVEL_TO_ALGORITHM[RealReg]}
LastOf(S) == CHOOSE j \in S : \A k \in S : k <= j
\* The low bit of the most recent earlier write to the algorithm register,
\* 0 when there is none.
StreamAlgoBit ==
    IF AlgoWritesBefore = {} THEN 0
    ELSE infile[LastOf(AlgoWritesBefore)][2] % 2

\* C13: a level write is classified by the low bit of the most recent
\* earlier write in the stream to its algorithm register, FM when there is
\* none; and no step changes a pair that was already emitted.
C13_ModeFromLastAlgorithmWrite ==
    /\ [][LevelWrite =>
            /\ Emits
            /\ IF StreamAlgoBit = 1 \/ RealReg \in NineCarriers
               THEN Emitted[2] = ((RawVal \div 64) * 64)
                                   + (quiet_function[RawVal % 64] % 64)
               ELSE Emitted[2] = RawVal]_vars
    /\ [][/\ Len(outPairs') >= Len(outPairs)
          /\ \A i \in 1..Len(outPairs) : outPairs'[i] = outPairs[i]]_vars

\* C13 witness: the algorithm register was set to additive and then back to
\* FM, and the modulator written after that came out unchanged, the two
\* algorithm writes still standing in the output as they were emitted.
C13_Witness ==
    /\ data.delays = <<\h7A, \h7B>>
    /\ infile = <<(<<\h02, \h25>>), (<<\h02, \hE4>>), (<<\h01, \h25>>)>>
    /\ outPairs = infile

\* The level registers of 0x40..0x55 without an algorithm register.
UnmappedLevelRegisters == {\h46, \h47, \h4E, \h4F}
UnmappedWrite ==
    /\ InBody /\ ~RawIsDelay /\ RawInCodemap
    /\ RealReg \in UnmappedLevelRegisters

\* C14: a write whose real register is 0x46, 0x47, 0x4E or 0x4F raises an
\* error: no pair is emitted for it, the bank is left as it was, and no step
\* follows the error.
C14_UnmappedRegisterFails ==
    /\ [][UnmappedWrite =>
            /\ result' = "KeyError"
            /\ pc' = "done"
            /\ outPairs' = outPairs
            /\ registers' = registers]_vars
    /\ [][pc # "done"]_vars

\* C14 witness: the pass ended with the error on a write to 0x46 that came
\* after an emitted pair, with more pairs left in the stream.
C14_Witness ==
    /\ result = "KeyError"
    /\ pc = "done"
    /\ Len(infile) = 2
    /\ Len(infile) < nPairs
    /\ Len(infile) < data.iLengthPairs
    /\ IsWriteAt(2) /\ RealRegAt(2) = \h46
    /\ Len(outPairs) = 1

OutOfRangeRead == InBody /\ ~RawIsDelay /\ ~RawInCodemap

\* C15: a pair that is not a delay and whose masked register is not below
\* the codemap length raises the index error: no pair is emitted for it and
\* the bank is unchanged.
C15_IndexOutOfRangeFails ==
    [][OutOfRangeRead =>
          /\ result' = "IndexError"
          /\ pc' = "done"
          /\ outPairs' = outPairs
          /\ registers' = registers]_vars

\* C15 witness: the pass ended with the index error on the register byte
\* 0x45 under the four-entry codemap, after an emitted pair.
C15_Witness ==
    /\ result = "IndexError"
    /\ Len(codemap) = 4
    /\ Len(infile) = 2
    /\ infile[2][1] = \h45
    /\ Len(outPairs) = 1

\* The bank the emitted pairs account for: all zero, then for each emitted
\* pair that is not a delay the emitted value at its translated register.
RECURSIVE BankAfter(_)
BankAfter(i) ==
    IF i = 0 THEN [r \in 0..255 |-> 0]
    ELSE IF IsWriteAt(i)
    THEN [BankAfter(i - 1) EXCEPT ![RealRegAt(i)] = outPairs[i][2]]
    ELSE BankAfter(i - 1)

\* C16: the bank has 256 cells of byte values, all zero before the first
\* pair; each cell holds the value emitted by the most recent pair that is
\* not a delay and translates to it, or 0; a write changes only the cell of
\* its own register, and a write to a register outside 0x40..0x55 stores
\* its input value.
C16_BankFollowsEmittedPairs ==
    /\ [](registers # <<>> =>
            /\ DOMAIN registers = 0..255
            /\ \A i \in 1..Len(outPairs) : outPairs[i][2] \in 0..255
            /\ registers = BankAfter(Len(outPairs)))
    /\ [][(InBody /\ Emits /\ ~RawIsDelay) =>
            /\ registers' = [registers EXCEPT ![RealReg] = Emitted[2]]
            /\ (RealReg \notin \h40..\h55 => registers'[RealReg] = RawVal)
         ]_vars

\* C16 witness: after three emitted pairs the carrier cell holds the
\* adjusted value of its latest write, the algorithm cell the value written
\* to it, and the delay pair between them left no trace.
C16_Witness ==
    /\ data.delays = <<\h00, \h45>>
    /\ infile = <<(<<\h02, \h25>>), (<<\h45, \hE4>>), (<<\h81, \hE4>>)>>
    /\ Len(outPairs) = 3
    /\ registers[\hC1] = \h25
    /\ registers[\h42] = \hC0
    /\ registers[\h20] = 0

\* The levels the single pass modified are all at least a + b.
NoLevelClamped ==
    \A i \in 1..Len(runs.single.quieted) :
        runs.single.quieted[i] >= runs.first.level + runs.second.level

\* C11: on a stream in which no modified level is smaller than a + b, the
\* pass with reduction b over the output of the pass with reduction a has
\* written the same pairs as the single pass with reduction a + b.
C11_ReductionsAdd ==
    NoLevelClamped => runs.second.outPairs = runs.single.outPairs

\* C11 witness: with a = 5 and b = 5, two pairs went through all three
\* passes, one of them a carrier write with level 0x25 that was modified.
C11_Witness ==
    /\ runs.first.level = 5 /\ runs.second.level = 5
    /\ runs.single.level = 10
    /\ data.delays = <<\h7A, \h7B>>
    /\ runs.single.infile = <<(<<\h02, \h25>>), (<<\h00, \h25>>)>>
    /\ Len(runs.second.outPairs) = 2
    /\ runs.single.quieted = <<\h25>>
    /\ NoLevelClamped

\* C17: two runs on streams that differ only in the bank bit of register
\* bytes emit the same value byte at every position (and end alike).
C17_BankBitIgnored ==
    /\ Len(runs.plain.outPairs) = Len(runs.flipped.outPairs)
    /\ \A i \in 1..Len(runs.plain.outPairs) :
           runs.plain.outPairs[i][2] = runs.flipped.outPairs[i][2]
    /\ runs.plain.result = runs.flipped.result
    /\ runs.plain.registers = runs.flipped.registers

\* C17 witness: the algorithm register was set to additive through bank 1 in
\* one run and through bank 0 in the other, and the modulator written after
\* it through the opposite bank was modified in both.
C17_Witness ==
    /\ data.delays = <<\h7A, \h7B>>
    /\ runs.plain.infile = <<(<<\h02, \h25>>), (<<\h81, \hE4>>)>>
    /\ runs.flipped.infile = <<(<<\h82, \h25>>), (<<\h01, \hE4>>)>>
    /\ runs.plain.outPairs[2][2] = \hC0
    /\ runs.flipped.outPairs[2][2] = \hC0

====
